---- MODULE Spec2Model ----
(***************************************************************************)
(* Model of src/batch_norm.py: class BatchNormalizedLayer.                 *)
(*                                                                         *)
(* The layer object is the state: input_dim, output_dim, the attributes    *)
(* gamma and beta (absent until the setter creates them), and cache.       *)
(* One action per method call; a call that raises keeps every assignment   *)
(* made before the raising line.                                           *)
(*                                                                         *)
(* `np` is the numpy library.  float64 values are modelled in fixed point: *)
(* a value v is the integer v * Scale (Scale = 10^4), and the squared      *)
(* quantities sigma2 and np.square(std) are kept at Scale^2 so that the    *)
(* literal 1e-8 of line 34 is exactly one quantum.  Every operation rounds *)
(* down to a quantum; statements about real values are made up to Tol.     *)
(***************************************************************************)
EXTENDS Integers, Sequences, FiniteSets, TLC

----------------------------------------------------------------------------
(* Fixed-point arithmetic standing for float64                              *)

Scale == 10 ^ 4
\* the literal 1e-8 (line 34), in quanta of Scale^-2
Eps == 1

Abs(a) == IF a < 0 THEN -a ELSE a

\* floor(a * 10^k / c) for c > 0, digit by digit so that no intermediate
\* value leaves the 32-bit range
RECURSIVE DivScaled(_, _, _)
DivScaled(a, c, k) ==
    IF k = 0 THEN a \div c
    ELSE (a \div c) * (10 ^ k) + DivScaled((a % c) * 10, c, k - 1)

\* integer square root (Newton's iteration from above)
RECURSIVE SqrtIter(_, _)
SqrtIter(n, x) ==
    LET y == (x + (n \div x)) \div 2
    IN  IF y >= x THEN x ELSE SqrtIter(n, y)

ISqrt(n) == IF n = 0 THEN 0 ELSE SqrtIter(n, n)

\* a * b of two Scale values, as a Scale value
MulFx(a, b) ==
    IF Abs(a) >= Abs(b)
    THEN (a \div Scale) * b + (((a % Scale) * b) \div Scale)
    ELSE (b \div Scale) * a + (((b % Scale) * a) \div Scale)

\* a / b of two Scale values, as a Scale value (sign of b carried over)
DivFx(a, b) == IF b > 0 THEN DivScaled(a, b, 4) ELSE DivScaled(-a, -b, 4)

\* a / b2 of a Scale value by a Scale^2 value, as a Scale value
DivFx2(a, b2) == DivScaled(a, b2, 8)

\* np.sqrt of a Scale^2 value, as a Scale value
SqrtFx2(v2) == ISqrt(v2)

\* np.sqrt of a Scale value, as a Scale value
SqrtFx(v) == ISqrt(v * Scale)

\* np.square of a Scale value, as a Scale^2 value
SquareFx(v) == v * v

\* an integer literal of the source as a Scale value
Lit(n) == n * Scale

----------------------------------------------------------------------------
(* numpy arrays.  A 2-D array is a sequence of rows; a 1-D array of length  *)
(* k takes part in an elementwise operation as the 1 x k array, which is    *)
(* numpy's broadcasting rule.  An elementwise operation on operands whose   *)
(* shapes do not broadcast raises ValueError: the raised state is the array *)
(* with no rows, which every later operation of the expression passes on.   *)

Raised == << >>

Rows(m) == Len(m)
Cols(m) == Len(m[1])
Shape(m) == <<Rows(m), Cols(m)>>
AsRow(v) == <<v>>
Max(a, b) == IF a >= b THEN a ELSE b

BroadcastOK(a, b) ==
    /\ a # Raised /\ b # Raised
    /\ (Rows(a) = Rows(b) \/ Rows(a) = 1 \/ Rows(b) = 1)
    /\ (Cols(a) = Cols(b) \/ Cols(a) = 1 \/ Cols(b) = 1)

At(m, i, j) == m[IF Rows(m) = 1 THEN 1 ELSE i][IF Cols(m) = 1 THEN 1 ELSE j]

Plus(a, b) == a + b
Minus(a, b) == a - b
AddEps(v2) == v2 + Eps

\* the scalar operation an array operation applies to each pair of elements
Binary(op, x, y) ==
    CASE op = "Plus" -> Plus(x, y)
      [] op = "Minus" -> Minus(x, y)
      [] op = "MulFx" -> MulFx(x, y)
      [] op = "DivFx" -> DivFx(x, y)
      [] op = "DivFx2" -> DivFx2(x, y)

\* the scalar operation an array operation applies to each element
Unary(op, x) ==
    CASE op = "SqrtFx" -> SqrtFx(x)
      [] op = "SqrtFx2" -> SqrtFx2(x)
      [] op = "SquareFx" -> SquareFx(x)
      [] op = "AddEps" -> AddEps(x)

Elementwise(op, a, b) ==
    IF ~BroadcastOK(a, b) THEN Raised
    ELSE [i \in 1..Max(Rows(a), Rows(b)) |->
            [j \in 1..Max(Cols(a), Cols(b)) |-> Binary(op, At(a, i, j), At(b, i, j))]]

\* an operation of an array with a Python scalar
Scalar(op, c, a) ==
    IF a = Raised THEN Raised
    ELSE [i \in 1..Rows(a) |-> [j \in 1..Cols(a) |-> Binary(op, c, a[i][j])]]

Map(op, a) ==
    IF a = Raised THEN Raised
    ELSE [i \in 1..Rows(a) |-> [j \in 1..Cols(a) |-> Unary(op, a[i][j])]]

RECURSIVE ColSum(_, _, _)
ColSum(m, j, i) == IF i = 0 THEN 0 ELSE m[i][j] + ColSum(m, j, i - 1)

\* np.sum(m, axis=0), as a 1 x Cols(m) array
np_sum(m) ==
    IF m = Raised THEN Raised
    ELSE AsRow([j \in 1..Cols(m) |-> ColSum(m, j, Rows(m))])

\* np.mean(m, axis=0)
np_mean(m) == AsRow([j \in 1..Cols(m) |-> ColSum(m, j, Rows(m)) \div Rows(m)])

\* np.var(m, axis=0): the mean of the squared deviations from the mean, at
\* Scale^2
np_var(m) ==
    LET dev == Elementwise("Minus", m, np_mean(m))
    IN  AsRow([j \in 1..Cols(m) |->
                 ColSum(Map("SquareFx", dev), j, Rows(m)) \div Rows(m)])

----------------------------------------------------------------------------
(* The arguments a client passes                                            *)

\* batch sizes 1..MaxBatch
MaxBatch == 3
\* feature counts: 1, which broadcasts against any other, and MaxDim
MaxDim == 2
Dims == {1, MaxDim}

\* 0.1
Step == Scale \div 10

\* batches: every row the same (zero variance), or rows in a ramp
Patterns == {0, 1}
Entry(p, i, j) == IF p = 0 THEN j * Step ELSE i * j * Step
Batches ==
    { [i \in 1..n |-> [j \in 1..d |-> Entry(p, i, j)]] :
        n \in 1..MaxBatch, d \in Dims, p \in Patterns }

\* gradients with respect to the outputs: 1.0 on the first row, 0 below
GradEntry(i, j) == IF i = 1 THEN Lit(1) ELSE 0
Grads ==
    { [i \in 1..n |-> [j \in 1..d |-> GradEntry(i, j)]] :
        n \in 1..MaxBatch, d \in Dims }

\* parameter arrays of length k: gamma = (1.0, 2.0, ..), beta = (0.5, 1.0, ..)
GammaOf(k) == AsRow([j \in 1..k |-> Lit(j)])
BetaOf(k) == AsRow([j \in 1..k |-> Lit(j) \div 2])
Gammas == { GammaOf(k) : k \in Dims }
ParamLists == { <<GammaOf(k), BetaOf(k)>> : k \in Dims }

\* constructor arguments (input_dim, output_dim)
CtorArgs == { <<MaxDim, MaxDim>>, <<1, MaxDim>> }

----------------------------------------------------------------------------
(* The layer object.  `self` maps the names of the attributes the object    *)
(* holds to their values; reading an attribute it does not hold raises      *)
(* AttributeError.  A 1-D array (gamma, beta, std, a summed gradient) is    *)
(* held as the 1 x k array it broadcasts as.                                *)

HasAttr(self, a) == a \in DOMAIN self
SetAttr(self, a, v) == [x \in DOMAIN self \cup {a} |-> IF x = a THEN v ELSE self[x]]

NoResult == << >>
Return(self, outcome, result) == [self |-> self, outcome |-> outcome, result |-> result]

\* mutant: output_dim taken from the argument
BatchNormalizedLayer_KeepsArgument(input_dim, output_dim) ==
    LET s1 == SetAttr(<< >>, "input_dim", input_dim)
        s2 == SetAttr(s1, "output_dim", output_dim)
    IN  SetAttr(s2, "cache", << >>)

\* __init__
BatchNormalizedLayer(input_dim, output_dim) ==
    LET s1 == SetAttr(<< >>, "input_dim", input_dim)
        s2 == SetAttr(s1, "output_dim", s1["input_dim"])
    IN  SetAttr(s2, "cache", << >>)

\* the literal -0.5 of line 61
MinusHalf == -(Scale \div 2)

\* lines 32-36: the triple fprop stores in the cache
forward(inputs) ==
    LET mu == np_mean(inputs)
        sigma2 == np_var(inputs)
        std == Map("SqrtFx2", Map("AddEps", sigma2))
        diff == Elementwise("Minus", inputs, mu)
        uhat == Elementwise("DivFx", Elementwise("Minus", inputs, mu), Map("SqrtFx", std))
    IN  <<std, diff, uhat>>

\* forward over the client's batches, tabulated once
ForwardTable == [inputs \in Batches |-> forward(inputs)]
Forward(inputs) == IF inputs \in Batches THEN ForwardTable[inputs] ELSE forward(inputs)

\* mutant: the cached std of an earlier call is kept
fprop_ReusesStd(self, inputs) ==
    LET new == Forward(inputs)
        kept == IF Len(self["cache"]) = 3
                THEN <<self["cache"][1], new[2], new[3]>> ELSE new
        s1 == SetAttr(self, "cache", kept)
    IN  Return(s1, IF HasAttr(s1, "gamma") /\ HasAttr(s1, "beta") THEN "ok"
                   ELSE "AttributeError", NoResult)

fprop(self, inputs) ==
    LET s1 == SetAttr(self, "cache", Forward(inputs))
        uhat == s1["cache"][3]
    IN  IF ~HasAttr(s1, "gamma") THEN Return(s1, "AttributeError", NoResult)
        ELSE LET scaled == Elementwise("MulFx", s1["gamma"], uhat)
             IN  IF scaled = Raised THEN Return(s1, "ValueError", NoResult)
                 ELSE IF ~HasAttr(s1, "beta") THEN Return(s1, "AttributeError", NoResult)
                 ELSE LET y == Elementwise("Plus", scaled, s1["beta"])
                      IN  IF y = Raised THEN Return(s1, "ValueError", NoResult)
                          ELSE Return(s1, "ok", y)

\* lines 60-64, from the unpacked cache
grads_wrt_inputs(std, diff, uhat, N, gamma, grads_wrt_outputs) ==
    LET duhat == Elementwise("MulFx", grads_wrt_outputs, gamma)
        dvar == Scalar("MulFx", MinusHalf,
                       Elementwise("DivFx2", np_sum(Elementwise("MulFx", duhat, uhat)),
                                   Map("SquareFx", std)))
        dmu == Scalar("MulFx", Lit(-1), Elementwise("DivFx", np_sum(duhat), std))
        invN == DivFx(Lit(1), Lit(N))
    IN  Elementwise("Plus",
            Elementwise("Plus",
                Elementwise("DivFx", duhat, std),
                Scalar("MulFx", invN, Elementwise("MulFx", Scalar("MulFx", Lit(2), dvar), diff))),
            Scalar("MulFx", invN, dmu))

\* grads_wrt_inputs over the caches, batch sizes, gammas and gradients the
\* client's calls produce, tabulated once
Caches == { ForwardTable[b] : b \in Batches }
BackwardKeys ==
    { <<c, n, gamma, g>> : c \in Caches, n \in 1..MaxBatch, gamma \in Gammas, g \in Grads }
BackwardTable ==
    [k \in BackwardKeys |->
        grads_wrt_inputs(k[1][1], k[1][2], k[1][3], k[2], k[3], k[4])]
Backward(cache, N, gamma, grads_wrt_outputs) ==
    BackwardTable[<<cache, N, gamma, grads_wrt_outputs>>]

\* mutant: the statistics are recomputed from the batch passed to bprop
bprop_FromOwnBatch(self, inputs, outputs, grads_wrt_outputs) ==
    IF Len(self["cache"]) # 3 THEN Return(self, "ValueError", NoResult)
    ELSE IF ~HasAttr(self, "gamma") THEN Return(self, "AttributeError", NoResult)
    ELSE LET g == Backward(Forward(inputs), Rows(inputs), self["gamma"], grads_wrt_outputs)
         IN  IF g = Raised THEN Return(self, "ValueError", NoResult)
             ELSE Return(self, "ok", g)

bprop(self, inputs, outputs, grads_wrt_outputs) ==
    IF Len(self["cache"]) # 3 THEN Return(self, "ValueError", NoResult)
    ELSE IF ~HasAttr(self, "gamma") THEN Return(self, "AttributeError", NoResult)
    ELSE LET g == Backward(self["cache"], Rows(inputs), self["gamma"], grads_wrt_outputs)
         IN  IF g = Raised THEN Return(self, "ValueError", NoResult)
             ELSE Return(self, "ok", g)

grads_wrt_params(self, inputs, grads_wrt_outputs) ==
    LET grads_wrt_beta == np_sum(grads_wrt_outputs)
    IN  IF Len(self["cache"]) < 3 THEN Return(self, "IndexError", NoResult)
        ELSE LET grads_wrt_gamma == np_sum(Elementwise("MulFx", grads_wrt_outputs, self["cache"][3]))
             IN  IF grads_wrt_gamma = Raised THEN Return(self, "ValueError", NoResult)
                 ELSE Return(self, "ok", <<grads_wrt_gamma, grads_wrt_beta>>)

params_penalty(self) == Return(self, "ok", 0)

\* The class body binds `params` twice (lines 93 and 98); the second binding
\* replaces the first, so `params` is the one-argument setter.
params(self, values) ==
    IF Len(values) < 1 THEN Return(self, "IndexError", NoResult)
    ELSE LET s1 == SetAttr(self, "gamma", values[1])
         IN  IF Len(values) < 2 THEN Return(s1, "IndexError", NoResult)
             ELSE Return(SetAttr(s1, "beta", values[2]), "ok", NoResult)

\* the call params() with no argument: the binding of line 98 requires `values`
params_noarg(self) == Return(self, "TypeError", NoResult)

----------------------------------------------------------------------------
(* The calls a client makes                                                 *)

VARIABLES
    self,   \* the layer object
    ctor,   \* the arguments the constructor was called with
    call,   \* the last call made on the object: its arguments, outcome and result
    fed     \* the batch of the most recent fprop call (none yet: no rows)

vars == <<self, ctor, call, fed>>

Init ==
    \E a \in CtorArgs :
        /\ self = BatchNormalizedLayer(a[1], a[2])
        /\ ctor = [input_dim |-> a[1], output_dim |-> a[2]]
        /\ call = [op |-> "__init__", outcome |-> "ok", result |-> NoResult]
        /\ fed = << >>

Fprop ==
    \E inputs \in Batches :
        LET r == fprop(self, inputs)
        IN  /\ self' = r.self
            /\ call' = [op |-> "fprop", inputs |-> inputs,
                        outcome |-> r.outcome, result |-> r.result]
            /\ fed' = inputs
            /\ UNCHANGED ctor

\* `outputs` is never read by bprop; the client passes the batch itself
Bprop ==
    \E inputs \in Batches, grads_wrt_outputs \in Grads :
        LET r == bprop(self, inputs, inputs, grads_wrt_outputs)
        IN  /\ self' = r.self
            /\ call' = [op |-> "bprop", inputs |-> inputs, grads |-> grads_wrt_outputs,
                        outcome |-> r.outcome, result |-> r.result]
            /\ UNCHANGED <<ctor, fed>>

\* `inputs` is never read by grads_wrt_params; the client passes a batch of the
\* gradient's shape
GradsWrtParams ==
    \E grads_wrt_outputs \in Grads :
      \E inputs \in { b \in Batches : Shape(b) = Shape(grads_wrt_outputs) } :
        LET r == grads_wrt_params(self, inputs, grads_wrt_outputs)
        IN  /\ self' = r.self
            /\ call' = [op |-> "grads_wrt_params", inputs |-> inputs,
                        grads |-> grads_wrt_outputs,
                        outcome |-> r.outcome, result |-> r.result]
            /\ UNCHANGED <<ctor, fed>>

ParamsPenalty ==
    LET r == params_penalty(self)
    IN  /\ self' = r.self
        /\ call' = [op |-> "params_penalty", outcome |-> r.outcome, result |-> r.result]
        /\ UNCHANGED <<ctor, fed>>

SetParams ==
    \E values \in ParamLists :
        LET r == params(self, values)
        IN  /\ self' = r.self
            /\ call' = [op |-> "params", values |-> values,
                        outcome |-> r.outcome, result |-> r.result]
            /\ UNCHANGED <<ctor, fed>>

GetParams ==
    LET r == params_noarg(self)
    IN  /\ self' = r.self
        /\ call' = [op |-> "params()", outcome |-> r.outcome, result |-> r.result]
        /\ UNCHANGED <<ctor, fed>>

\* the round trip params(params()): the argument is evaluated first, and the
\* setter runs only if that evaluation returns
RoundTrip ==
    LET got == params_noarg(self)
        r == IF got.outcome = "ok" THEN params(got.self, got.result) ELSE got
    IN  /\ self' = r.self
        /\ call' = [op |-> "params(params())", outcome |-> r.outcome, result |-> r.result]
        /\ UNCHANGED <<ctor, fed>>

Next ==
    \/ Fprop
    \/ Bprop
    \/ GradsWrtParams
    \/ ParamsPenalty
    \/ SetParams
    \/ GetParams
    \/ RoundTrip

Spec == Init /\ [][Next]_vars

----------------------------------------------------------------------------
(* Properties                                                               *)

\* what a comparison of two real values allows for rounding: 0.01
Tol == Scale \div 100

Initialised == HasAttr(self, "gamma") /\ HasAttr(self, "beta")
CacheFilled == Len(self["cache"]) = 3

\* a layer constructed with output_dim = input_dim whose parameters have been
\* set to arrays of length input_dim
WellFormed ==
    /\ ctor.input_dim = ctor.output_dim
    /\ Initialised
    /\ Cols(self["gamma"]) = self["input_dim"]
    /\ Cols(self["beta"]) = self["input_dim"]

\* C1: when fprop returns on a well-formed layer and a batch of input_dim
\* columns, every element of the cached uhat (cache slot 2) satisfies
\* uhat * std = diff, and the output is gamma * (diff / std) + beta.
C1_UhatIsDiffOverStd ==
    (/\ WellFormed
     /\ call.op = "fprop"
     /\ call.outcome = "ok"
     /\ Cols(call.inputs) = self["input_dim"]) =>
        LET std == self["cache"][1]
            diff == self["cache"][2]
            uhat == self["cache"][3]
        IN  \A i \in 1..Rows(uhat) : \A j \in 1..Cols(uhat) :
                /\ Abs(MulFx(uhat[i][j], std[1][j]) - diff[i][j]) <= Tol
                /\ Abs(call.result[i][j]
                        - (MulFx(self["gamma"][1][j], DivFx(diff[i][j], std[1][j]))
                           + self["beta"][1][j])) <= Tol

\* C2: bprop or grads_wrt_params on a layer on which fprop was never called
\* ends in the dedicated "not initialized" error.
C2_NotInitializedError ==
    (WellFormed /\ call.op \in {"bprop", "grads_wrt_params"} /\ fed = << >>) =>
        call.outcome = "NotInitializedError"

\* C3: construction with input_dim # output_dim fails with a configuration
\* error and leaves no layer on which a method can be called.
C3_MismatchedDimsRejected ==
    ctor.input_dim # ctor.output_dim =>
        (call.op = "__init__" /\ call.outcome = "ConfigurationError")

\* C4: in every reachable state gamma and beta exist and have length input_dim.
C4_ParamsHaveLengthInputDim ==
    /\ Initialised
    /\ Cols(self["gamma"]) = self["input_dim"]
    /\ Cols(self["beta"]) = self["input_dim"]

\* C5: with parameters set, the round trip params(params()) succeeds and
\* leaves gamma and beta as they were.
C5_RoundTrip ==
    [][(Initialised /\ call'.op = "params(params())") =>
          /\ call'.outcome = "ok"
          /\ self'["gamma"] = self["gamma"]
          /\ self'["beta"] = self["beta"]]_vars

\* C7: on a well-formed layer, fprop of a batch whose column
\* count is not input_dim, and bprop / grads_wrt_params of a gradient whose
\* shape is not that of the cached forward call, do not return a result.
C7_ShapeMismatchRejected ==
    WellFormed =>
        /\ (call.op = "fprop" /\ Cols(call.inputs) # self["input_dim"]) =>
               call.outcome # "ok"
        /\ (/\ call.op \in {"bprop", "grads_wrt_params"}
            /\ CacheFilled
            /\ Shape(call.grads) # Shape(self["cache"][3])) =>
               call.outcome # "ok"

\* C8: output_dim = input_dim in every reachable state, whatever output_dim
\* the constructor was given.
C8_OutputDimIsInputDim == self["output_dim"] = self["input_dim"]

\* C8 witness: a layer constructed with output_dim # input_dim on which a
\* forward and a backward call have returned.
C8_Witness ==
    /\ ctor.output_dim # ctor.input_dim
    /\ call.op = "bprop"
    /\ call.outcome = "ok"

\* The gradient check.  The scalar loss is L = sum(g * y) for the gradient
\* g passed to the backward call, so that the true derivative of L with
\* respect to x[i][j] is estimated by the central difference of L o fprop.
\* The comparison is made where a difference of step H estimates a derivative:
\* on batches whose every feature has a standard deviation of at least 2.5 H.
H == Step \div 50
GradTol == Scale \div 2

Perturbed(x, i, j, h) ==
    [r \in 1..Rows(x) |-> [c \in 1..Cols(x) |->
        IF r = i /\ c = j THEN x[r][c] + h ELSE x[r][c]]]

TotalLoss(layer, x, g) ==
    LET y == fprop(layer, x).result
        gy == Elementwise("MulFx", g, y)
        cols == np_sum(gy)
    IN  ColSum([j \in 1..Cols(cols) |-> <<cols[1][j]>>], 1, Cols(cols))

\* central differences of the loss in x[i][j], gamma[j] and beta[j]
DiffInput(layer, x, g, i, j) ==
    DivFx(TotalLoss(layer, Perturbed(x, i, j, H), g)
          - TotalLoss(layer, Perturbed(x, i, j, -H), g), 2 * H)

DiffParam(layer, name, x, g, j) ==
    LET up == SetAttr(layer, name, Perturbed(layer[name], 1, j, Lit(1)))
        down == SetAttr(layer, name, Perturbed(layer[name], 1, j, Lit(-1)))
    IN  DivFx(TotalLoss(up, x, g) - TotalLoss(down, x, g), Lit(2))

GradientCheckable ==
    /\ WellFormed
    /\ call.op \in {"bprop", "grads_wrt_params"}
    /\ call.outcome = "ok"
    /\ call.inputs = fed
    /\ Shape(call.grads) = Shape(fed)
    /\ Cols(fed) = self["input_dim"]
    /\ \A j \in 1..Cols(fed) : 2 * self["cache"][1][1][j] >= 5 * H

\* C6: after fprop of a batch, what bprop returns agrees with the central
\* differences of the loss in every input, and what grads_wrt_params returns
\* agrees with the central differences of the loss in gamma and in beta.
C6_GradientCheck ==
    GradientCheckable =>
        /\ call.op = "bprop" =>
             \A i \in 1..Rows(fed) : \A j \in 1..Cols(fed) :
                Abs(call.result[i][j] - DiffInput(self, fed, call.grads, i, j)) <= GradTol
        /\ call.op = "grads_wrt_params" =>
             \A j \in 1..Cols(fed) :
                /\ Abs(call.result[1][1][j]
                       - DiffParam(self, "gamma", fed, call.grads, j)) <= GradTol
                /\ Abs(call.result[2][1][j]
                       - DiffParam(self, "beta", fed, call.grads, j)) <= GradTol

\* the parameter gradients alone agree with their central differences
C6_ParamGradientsOnly == (call.op = "grads_wrt_params") => C6_GradientCheck

AttrOrNone(layer, a) == IF HasAttr(layer, a) THEN layer[a] ELSE << >>

\* C9: every fprop call replaces the cache with the triple computed from that
\* call's inputs alone; bprop, grads_wrt_params and params_penalty leave the
\* cache, gamma and beta as they were; and some call is always possible.
C9_CacheLifecycle ==
    /\ [][/\ call'.op = "fprop" => self'["cache"] = Forward(call'.inputs)
          /\ call'.op \in {"bprop", "grads_wrt_params", "params_penalty"} =>
                /\ self'["cache"] = self["cache"]
                /\ AttrOrNone(self', "gamma") = AttrOrNone(self, "gamma")
                /\ AttrOrNone(self', "beta") = AttrOrNone(self, "beta")]_vars
    /\ [](ENABLED Next)

\* C9 witness: a backward call has returned after a forward call and the cache
\* is still the triple of that forward call's batch.
C9_Witness ==
    /\ call.op \in {"bprop", "grads_wrt_params"}
    /\ call.outcome = "ok"
    /\ fed # << >>
    /\ self["cache"] = Forward(fed)

\* what a backward call returns when it computes from the cache `c`
FromCache(c) ==
    IF call.op = "bprop"
    THEN grads_wrt_inputs(c[1], c[2], c[3], Rows(call.inputs), self["gamma"], call.grads)
    ELSE LET gg == np_sum(Elementwise("MulFx", call.grads, c[3]))
         IN  IF gg = Raised THEN Raised ELSE <<gg, np_sum(call.grads)>>

\* a backward call for batch A = call.inputs, with a gradient of A's shape, on a
\* well-formed layer whose most recent fprop was of batch B = fed; A and B
\* both have input_dim columns
BackwardCall ==
    /\ WellFormed
    /\ call.op \in {"bprop", "grads_wrt_params"}
    /\ fed # << >>
    /\ Cols(fed) = self["input_dim"]
    /\ Cols(call.inputs) = self["input_dim"]
    /\ Shape(call.grads) = Shape(call.inputs)

\* C10 as stated: the backward call for A after fprop(B) raises no error,
\* returns what the cache of B gives, and that is what the cache of A gives
\* only when no other fprop came between (A = B).
C10_AsStated ==
    BackwardCall =>
        /\ call.outcome = "ok"
        /\ call.result = FromCache(Forward(fed))
        /\ call.inputs # fed => call.result # FromCache(Forward(call.inputs))

\* C10 as amended: the backward call returns exactly when the gradient
\* broadcasts against the arrays cached for B (otherwise numpy's ValueError);
\* what it returns is what the cache of B gives, which is what the cache of A
\* gives when no other fprop came between.
C10_Interleaving ==
    BackwardCall =>
        /\ call.outcome = "ok" <=> BroadcastOK(call.grads, Forward(fed)[3])
        /\ call.outcome # "ok" => call.outcome = "ValueError"
        /\ call.outcome = "ok" => call.result = FromCache(Forward(fed))
        /\ call.inputs = fed =>
              (call.outcome = "ok" /\ call.result = FromCache(Forward(call.inputs)))

\* C10 witness: a backward call for A returned a result computed from the
\* cache of another batch B of the same shape, not what the cache of A gives.
C10_Witness ==
    /\ BackwardCall
    /\ call.outcome = "ok"
    /\ call.inputs # fed
    /\ Shape(call.inputs) = Shape(fed)
    /\ call.result = FromCache(Forward(fed))
    /\ call.result # FromCache(Forward(call.inputs))

====
